---- MODULE Spec2Model ----
(***************************************************************************)
(* gswarm-sidecar: the log monitoring and delivery pipeline                *)
(* (internal/logs: tailing with checkpoints, parsing, PII redaction,       *)
(* batching, delivery, the down detector) and Monitor.Start / Monitor.Stop.*)
(*                                                                         *)
(* Strings are sequences of tokens.  A token stands for one lexical item   *)
(* of a log line: a harmless word, the field delimiter " - ", a bracket,   *)
(* or one text that one of the scrubber's regular expressions matches.     *)
(***************************************************************************)
EXTENDS Integers, Sequences, FiniteSets, TLC

\* ------------------------------------------------------------------ bounds
MaxLines == 3          \* lines the workload writes to one log file
MaxRestarts == 1       \* process restarts explored
MaxSharedLines == 2    \* lines per file when both Sources are written
MaxTime == 14          \* seconds the clock runs
MaxClock == 7          \* seconds the clock runs beside a Source task
MaxNilReads == 11      \* nil lines a task is followed through in its skip loop

\* ------------------------------------------------------- program constants
splitPartsFull == 4
statusCodeError == 300
maxNilLines == 10
DefaultTailLines == 100
DefaultDelay == 300
PollSleep == 2
DefaultFlushInterval == 10
ActivityCap == 1

\* ------------------------------------------------------------ configuration
BatchSize == 2         \* cfg.LogMonitoring.BatchSize
InitialTailLines == 1  \* cfg.LogMonitoring.InitialTailLines
DownAlertDelay == 5    \* cfg.Telegram.DownAlertDelay
BatchFlushInterval == 3 \* cfg.LogMonitoring.BatchFlushInterval
RetryCount == 2        \* cfg.API.RetryCount

Sources == {"a", "b"}  \* cfg.LogMonitoring.LogFiles

Max(x, y) == IF x >= y THEN x ELSE y

\* ------------------------------------------------------------------ strings
Marker == "[REDACTED]"

\* The regular expressions of scrubPII, in the order they are applied; each
\* is named by the token that stands for a text it matches.
Regexes == <<"email", "ip", "wallet", "env", "serial", "hex">>

RegexSet == {Regexes[i] : i \in DOMAIN Regexes}

\* A string is the concatenation of its tokens. These tokens begin and end
\* with a character that is not a word character; every other token is text
\* that begins and ends with a word character.
NonWord == {Marker, "sp", "-", "[", "]", "'", ",", ", "}

\* the regular expressions written with \b at both ends
Bounded == {"ip", "hex"}

\* re matches the token at i: the text is one re matches, and a \b of re has
\* a word boundary on each side
MatchAt(re, val, i) ==
    /\ val[i] = re
    /\ re \in Bounded =>
          /\ (i = 1 \/ val[i - 1] \in NonWord)
          /\ (i = Len(val) \/ val[i + 1] \in NonWord)

\* re.MatchString(val)
MatchString(re, val) == \E i \in DOMAIN val : MatchAt(re, val, i)

\* re.ReplaceAllString(val, "[REDACTED]")
ReplaceAllString(re, val) ==
    [i \in DOMAIN val |-> IF MatchAt(re, val, i) THEN Marker ELSE val[i]]

\* the loop over the regexes applied to one string value
RECURSIVE scrubFrom(_, _)
scrubFrom(val, i) ==
    IF i > Len(Regexes) THEN val
    ELSE LET replaced[v \in {val}] ==
                 IF MatchString(Regexes[i], v) THEN ReplaceAllString(Regexes[i], v) ELSE v
         IN scrubFrom(replaced[val], i + 1)

scrubString(val) == scrubFrom(val, 1)

\* ------------------------------------------------------ values of Details
\* Details is map[string]interface{}: a value carries its dynamic Go type.
Str(s) == [t |-> "string", v |-> s]
StrSlice(ss) == [t |-> "[]string", v |-> ss]
Map(m) == [t |-> "map", v |-> m]
Slice(xs) == [t |-> "[]interface{}", v |-> xs]

RECURSIVE scrubMap(_), scrubSlice(_)
scrubMap(m) ==
    [k \in DOMAIN m |->
        CASE m[k].t = "string" -> Str(scrubString(m[k].v))
          [] m[k].t = "map" -> Map(scrubMap(m[k].v))
          [] m[k].t = "[]interface{}" -> Slice(scrubSlice(m[k].v))
          [] OTHER -> m[k]]

scrubSlice(arr) ==
    [i \in DOMAIN arr |->
        CASE arr[i].t = "string" -> Str(scrubString(arr[i].v))
          [] arr[i].t = "map" -> Map(scrubMap(arr[i].v))
          [] arr[i].t = "[]interface{}" -> Slice(scrubSlice(arr[i].v))
          [] OTHER -> arr[i]]

\* scrubPII(event): Details is replaced, the other fields are kept. The field
\* redacted is history: scrubPII has been executed on the Event.
scrubPII(event) ==
    [event EXCEPT !.details = scrubMap(event.details), !.redacted = TRUE]

\* ------------------------------------------------------------------- parser
Delim == "-"           \* the delimiter " - "
Space == "sp"          \* white space

IndexFrom(str, tok) ==
    IF \E i \in DOMAIN str : str[i] = tok
    THEN CHOOSE i \in DOMAIN str : str[i] = tok /\ \A j \in 1..(i - 1) : str[j] # tok
    ELSE 0 - 1

\* strings.Index counts from 0 and answers -1 when there is no match
Index(str, tok) == IF IndexFrom(str, tok) < 0 THEN 0 - 1 ELSE IndexFrom(str, tok) - 1

\* strings.SplitN(line, sep, n)
RECURSIVE SplitN(_, _, _)
SplitN(str, sep, n) ==
    IF n = 1 \/ IndexFrom(str, sep) < 0 THEN <<str>>
    ELSE <<SubSeq(str, 1, IndexFrom(str, sep) - 1)>>
         \o SplitN(SubSeq(str, IndexFrom(str, sep) + 1, Len(str)), sep, n - 1)

\* strings.Split(str, sep): no limit on the number of parts
Split(str, sep) == SplitN(str, sep, Len(str) + 1)

\* strings.Trim(str, cutset)
RECURSIVE TrimLeft(_, _), TrimRight(_, _)
TrimLeft(str, cutset) ==
    IF str # <<>> /\ Head(str) \in cutset THEN TrimLeft(Tail(str), cutset) ELSE str
TrimRight(str, cutset) ==
    IF str # <<>> /\ str[Len(str)] \in cutset
    THEN TrimRight(SubSeq(str, 1, Len(str) - 1), cutset) ELSE str
Trim(str, cutset) == TrimRight(TrimLeft(str, cutset), cutset)
TrimSpace(str) == Trim(str, {Space})

\* strings.ToLower on the level words the workload writes
LowerTok(tok) ==
    CASE tok = "INFO" -> "info"
      [] tok = "ERROR" -> "error"
      [] tok = "Debug" -> "debug"
      [] tok = "WARNING" -> "warning"
      [] tok = "RAW" -> "raw"
      [] OTHER -> tok
ToLower(str) == [i \in DOMAIN str |-> LowerTok(str[i])]

JoinMarker == "Joining swarm with initial_peers"
Contains(str, tok) == IndexFrom(str, tok) > 0

NilPeers == [t |-> "nil", v |-> <<>>]
CommaSpace == ", "      \* a comma followed by a space; "," is a comma alone

extractPeersFromLine(line) ==
    LET start == Index(line, "[")
        end == Index(line, "]")
    IN IF start = 0 - 1 \/ end = 0 - 1 \/ end <= start THEN NilPeers
       ELSE LET peersStr == SubSeq(line, start + 2, end)
                peers == Split(peersStr, CommaSpace)
            IN StrSlice([i \in DOMAIN peers |-> Trim(peers[i], {"'", Space})])

\* the Event of a line that has fewer than four fields
RawEventTrimmed(line, ln) ==
    [ln |-> ln, redacted |-> FALSE, event_type |-> <<"raw">>,
     details |-> [raw_line |-> Str(TrimSpace(line))]]
RawEvent(line, ln) ==
    [ln |-> ln, redacted |-> FALSE, event_type |-> <<"raw">>,
     details |-> [raw_line |-> Str(line)]]

\* parseSwarmLogLine(line, cfg); ln is the line's index in its file, kept with
\* the Event so that properties can name the lines a batch covers.
parseSwarmLogLine(line, ln) ==
    LET parts == SplitN(line, Delim, splitPartsFull)
    IN IF Len(parts) < splitPartsFull
       THEN RawEvent(line, ln)
       ELSE LET level == TrimSpace(parts[2])
                logger == TrimSpace(parts[3])
                msg == TrimSpace(parts[4])
            IN IF Contains(msg, JoinMarker)
               THEN [ln |-> ln, redacted |-> FALSE, event_type |-> <<"peer_event">>,
                     details |-> [action |-> Str(<<"join">>),
                                  peers |-> extractPeersFromLine(msg),
                                  logger |-> Str(logger),
                                  raw |-> Str(msg)]]
               ELSE [ln |-> ln, redacted |-> FALSE, event_type |-> ToLower(level),
                     details |-> [logger |-> Str(logger), message |-> Str(msg)]]

\* ------------------------------------------------------------ the workload
\* What the external workload writes to each Source, line by line.
Pool(s) ==
    IF s = "a"
    THEN << <<"ts", Delim, "INFO", Delim, "lg", Delim, JoinMarker,
              "[", "'", "ip", "'", CommaSpace, "'", "txt", Space, "ip", "'", "]">>,
            <<"ts", Delim, "ERROR", Delim, "lg", Delim, Space, "email", "txt",
              Space, "wallet", "ip">>,
            <<"txt", Space, "ip", Delim, "env">> >>
    ELSE << <<"ts", Delim, "WARNING", Delim, Space, "lg", Delim, "serial", Delim, "hex">>,
            <<"wallet">>,
            <<"ts", Delim, "Debug", Delim, "lg", Delim, JoinMarker, "]", "[">> >>

FileLine(s, l) == Pool(s)[((l - 1) % Len(Pool(s))) + 1]

\* the Event of every line of the workload, as parseSwarmLogLine gives it
EventOf == [s \in Sources |-> [l \in 1..MaxLines |-> parseSwarmLogLine(FileLine(s, l), l)]]

\* -------------------------------------------------------------------- state
NoOff == 0 - 1         \* the key is absent from the offsets map

VARIABLES
    fileLen,       \* Source -> number of lines now in its log file
    fileStore,     \* sidecar_offsets.json: Source -> line index, or NoOff
    offsets,       \* the fileOffsets map shared by the tasks of this run
    pc,            \* Source -> where its task is
    seekLine,      \* Source -> lines its task skips at start
    lineNum,       \* Source -> lines its task has read
    batch,         \* Source -> the Events waiting for delivery
    nilLineCount,  \* Source -> consecutive nil lines received
    tailClosed,    \* Source -> the tail's Lines channel is closed
    snap,          \* Source -> the document its task has serialised
    ctxDone,       \* the context given to Monitor.Start is cancelled
    run,           \* restarts of the process so far
    activityCh,    \* signals pending in the down detector's channel (cap 1)
    lastPost,      \* the latest delivery attempt: whose, the Events serialised, whether
                   \* the request went out, whether it was acknowledged
    acked,         \* Source -> lines whose Event was in an acknowledged batch
    read,          \* Source -> lines parsed in some run
    now,           \* the clock, in seconds
    lastEventTime, \* down detector: when it last processed an activity signal
    alertSent,     \* down detector: an alert went out in this silence episode
    dpc,           \* down detector: where its goroutine is
    wake,          \* down detector: when its time.Sleep ends
    alertReqs,     \* alert requests issued since the last processed signal
    alertOks,      \* alert requests that succeeded since the last processed signal
    flushAt,       \* Source -> when its flushTimer fires
    lastSignal,    \* when a task last sent an activity signal, or the process started
    wasReset,      \* down detector: a signal has ended an episode that was alerted
    nilReads,      \* Source -> consecutive nil lines its task has received
    everSignal,    \* a task has sent an activity signal in this run
    inLine,        \* a log line given to the parser
    result,        \* what the parser and the scrubber made of inLine
    tx             \* a call of Transmitter.SendJSON: the request and the retry loop

fnVars == <<inLine, result, tx>>

detVars == <<now, lastEventTime, alertSent, dpc, wake, alertReqs, alertOks, wasReset>>

pipeVars == <<fileLen, fileStore, offsets, pc, seekLine, lineNum, batch,
              nilLineCount, tailClosed, snap, run, lastPost, acked, read, flushAt>>

vars == <<fileLen, fileStore, offsets, pc, seekLine, lineNum, batch,
          nilLineCount, tailClosed, snap, ctxDone, run, activityCh, lastPost,
          acked, read, now, lastEventTime, alertSent, dpc, wake, alertReqs, alertOks,
          flushAt, lastSignal, wasReset, nilReads, everSignal, inLine, result, tx>>

NoMap == [s \in Sources |-> NoOff]

Exited == {"nofile", "cancelled", "abandoned"}

Lines(b) == {b[i].ln : i \in DOMAIN b}
LineSeq(b) == [i \in DOMAIN b |-> b[i].ln]

\* the process starts: loadOffsets, then one task per Source is spawned
StartState(store) ==
    /\ offsets = store
    /\ pc = [s \in Sources |-> "init"]
    /\ seekLine = [s \in Sources |-> 0]
    /\ lineNum = [s \in Sources |-> 0]
    /\ batch = [s \in Sources |-> <<>>]
    /\ nilLineCount = [s \in Sources |-> 0]
    /\ tailClosed = [s \in Sources |-> FALSE]
    /\ snap = [s \in Sources |-> NoMap]
    /\ ctxDone = FALSE
    /\ activityCh = 0
    /\ lastEventTime = now
    /\ alertSent = FALSE
    /\ dpc = "select"
    /\ wake = 0
    /\ alertReqs = 0
    /\ alertOks = 0
    /\ flushAt = [s \in Sources |-> 0]
    /\ lastSignal = now
    /\ wasReset = FALSE
    /\ nilReads = [s \in Sources |-> 0]
    /\ everSignal = FALSE

NoLine == <<>>
NoResult == <<>>

\* no call of SendJSON has been made
NoCall == [pc |-> "idle", RetryCount |-> 0, i |-> 0,
           lastErr |-> [err |-> FALSE, status |-> 0], ret |-> [err |-> FALSE, status |-> 0],
           body |-> <<>>, tries |-> <<>>, slept |-> <<>>]

InitProcess ==
    /\ now = 0
    /\ fileLen = [s \in Sources |-> 0]
    /\ fileStore = NoMap
    /\ StartState(NoMap)
    /\ run = 0
    /\ lastPost = [src |-> "none", events |-> <<>>, ok |-> FALSE, sent |-> FALSE, tog |-> 0,
                   status |-> 0, attempts |-> 0]
    /\ acked = [s \in Sources |-> {}]
    /\ read = [s \in Sources |-> {}]

Init ==
    /\ InitProcess
    /\ inLine = NoLine
    /\ result = NoResult
    /\ tx = NoCall

\* ------------------------------------------------------------- environment
\* the workload appends one line to a log file
AppendLine(s) ==
    /\ fileLen[s] < MaxLines
    /\ fileLen' = [fileLen EXCEPT ![s] = @ + 1]
    /\ UNCHANGED <<nilReads, everSignal, fnVars, fileStore, offsets, pc, seekLine, flushAt, lineNum, batch, nilLineCount,
                   tailClosed, snap, ctxDone, run, activityCh, lastSignal, lastPost, acked, read, detVars>>

\* the tail of a file stops and closes its Lines channel
CloseTail(s) ==
    /\ pc[s] \in {"skip", "tail"}
    /\ ~tailClosed[s]
    /\ tailClosed' = [tailClosed EXCEPT ![s] = TRUE]
    /\ UNCHANGED <<nilReads, everSignal, fnVars, fileLen, flushAt, fileStore, offsets, pc, seekLine, lineNum, batch,
                   nilLineCount, snap, ctxDone, run, activityCh, lastSignal, lastPost, acked, read, detVars>>

\* ------------------------------------------------------------ Source tasks
\* flushInterval as the task computes it, in seconds
FlushInterval ==
    IF BatchFlushInterval > 0 THEN BatchFlushInterval ELSE DefaultFlushInterval

\* when the flushTimer fires after flushTimer.Reset(flushInterval) at time t
TimerKept(old, t) == old
TimerAfter(old, t) == t + FlushInterval

\* the signals pending after select { case activityCh <- struct{}{}: default: }
SendQueued(n) == n + 1
SendNonBlocking(n) == IF n < ActivityCap THEN n + 1 ELSE n

\* the size trigger, tested after each append
SizeReachedLate(b) == Len(b) > BatchSize
SizeReached(b) == Len(b) >= BatchSize

\* the requests one call of postBatchWithOffset issues: client.Do, once
Attempts(out) == 1

\* the attempts a delivery with retries is allowed: for i := 0; i <= RetryCount
MaxAttempts == RetryCount + 1

\* the fallback window when no offset is stored
TailWindow == IF InitialTailLines <= 0 THEN DefaultTailLines ELSE InitialTailLines

\* seekLine as the task computes it before tailing
StartLineWindowOnly(off, total) == Max(0, total - TailWindow)
StartLine(off, total) == IF off # NoOff THEN off ELSE Max(0, total - TailWindow)

\* the condition of the loop that skips lines up to seekLine
SkipMoreInclusive(ln, seek) == ln <= seek
SkipMore(ln, seek) == ln < seek

\* the task checks its file, computes seekLine and starts tailing
TaskStart(s) ==
    /\ pc[s] = "init"
    /\ IF fileLen[s] = 0
       THEN /\ pc' = [pc EXCEPT ![s] = "nofile"]
            /\ UNCHANGED <<seekLine, flushAt>>
       ELSE /\ seekLine' = [seekLine EXCEPT ![s] = StartLine(offsets[s], fileLen[s])]
            /\ flushAt' = [flushAt EXCEPT ![s] = TimerAfter(@, now)]
            /\ pc' = [pc EXCEPT ![s] = IF SkipMore(0, seekLine'[s]) THEN "skip" ELSE "tail"]
    /\ UNCHANGED <<nilReads, everSignal, fnVars, fileLen, fileStore, offsets, lineNum, batch, nilLineCount,
                   tailClosed, snap, ctxDone, run, activityCh, lastSignal, lastPost, acked, read, detVars>>

\* a line is waiting in t.Lines
LineReady(s) == ~tailClosed[s] /\ lineNum[s] < fileLen[s]

\* one turn of the skip loop on a real line
SkipLine(s) ==
    /\ pc[s] = "skip"
    /\ LineReady(s)
    /\ lineNum' = [lineNum EXCEPT ![s] = @ + 1]
    /\ pc' = [pc EXCEPT ![s] = IF SkipMore(lineNum'[s], seekLine[s]) THEN "skip" ELSE "tail"]
    /\ nilReads' = [nilReads EXCEPT ![s] = 0]
    /\ UNCHANGED <<everSignal, fnVars, fileLen, flushAt, fileStore, offsets, seekLine, batch, nilLineCount,
                   tailClosed, snap, ctxDone, run, activityCh, lastSignal, lastPost, acked, read, detVars>>

\* one turn of the skip loop on a nil line: continue
SkipNil(s) ==
    /\ pc[s] = "skip"
    /\ tailClosed[s]
    /\ nilReads[s] < MaxNilReads
    /\ nilReads' = [nilReads EXCEPT ![s] = @ + 1]
    /\ UNCHANGED <<everSignal, fnVars, fileLen, fileStore, offsets, pc, seekLine, lineNum,
                   batch, nilLineCount, tailClosed, snap, ctxDone, run, activityCh,
                   lastSignal, lastPost, acked, read, flushAt, detVars>>

\* what client.Do can answer
Statuses == {101, 200, 299, 300, 500}
OutcomesDespiteCancel(cancelled) ==
    {[err |-> TRUE, status |-> 0]} \cup {[err |-> FALSE, status |-> c] : c \in Statuses}
Outcomes(cancelled) ==
    {[err |-> TRUE, status |-> 0]} \cup
    (IF cancelled THEN {} ELSE {[err |-> FALSE, status |-> c] : c \in Statuses})

\* postBatchWithOffset returns true
PostSucceeded(out) == ~out.err /\ ~(out.status >= statusCodeError)

\* the batch the caller keeps when postBatchWithOffset has returned false
RetainedCleared(b) == <<>>
Retained(b) == b

\* the offsets map when the response has been read
OffsetsAlways(s, ln, out) == [offsets EXCEPT ![s] = ln]
OffsetsAfterPost(s, ln, out) ==
    IF PostSucceeded(out) THEN [offsets EXCEPT ![s] = ln] ELSE offsets

\* postBatchWithOffset up to the assignment offsets[absPath] = lineNum; saveOffsets
\* follows in Marshal and WriteFile. A failed call leaves the task at pc next.
Post(s, b, ln, out, next) ==
    LET scrubbed == [i \in DOMAIN b |-> scrubPII(b[i])]
    IN /\ lastPost' = [src |-> s, events |-> scrubbed, ok |-> PostSucceeded(out),
                       sent |-> ~ctxDone, tog |-> 1 - lastPost.tog,
                       status |-> out.status, attempts |-> Attempts(out)]
       /\ offsets' = OffsetsAfterPost(s, ln, out)
       /\ IF PostSucceeded(out)
          THEN /\ batch' = [batch EXCEPT ![s] = scrubbed]
               /\ acked' = [acked EXCEPT ![s] = @ \cup Lines(b)]
               /\ pc' = [pc EXCEPT ![s] = "marshal"]
          ELSE /\ batch' = [batch EXCEPT ![s] = Retained(scrubbed)]
               /\ pc' = [pc EXCEPT ![s] = next]
               /\ UNCHANGED acked

\* case line := <-t.Lines, a real line: the line is counted, parsed and
\* appended, and the batch is posted when it has reached its size
ReadLineEvent(s) ==
    /\ pc[s] = "tail"
    /\ LineReady(s)
    /\ nilReads' = [nilReads EXCEPT ![s] = 0]
    /\ lineNum' = [lineNum EXCEPT ![s] = @ + 1]
    /\ read' = [read EXCEPT ![s] = @ \cup {lineNum'[s]}]
    /\ LET event == EventOf[s][lineNum[s] + 1]
           grown == Append(batch[s], event)
       IN IF SizeReached(grown)
          THEN \E out \in Outcomes(ctxDone) : Post(s, grown, lineNum'[s], out, "tail")
          ELSE /\ batch' = [batch EXCEPT ![s] = grown]
               /\ UNCHANGED <<offsets, pc, lastPost, acked>>
    /\ flushAt' = IF pc'[s] = "marshal" THEN flushAt
                  ELSE [flushAt EXCEPT ![s] = TimerAfter(@, now)]
    /\ UNCHANGED <<fnVars, fileLen, fileStore, seekLine, tailClosed, snap, ctxDone, run, detVars>>

\* the task started with the down detector: the count of nil lines is reset
\* and the detector is notified before the line is counted
ReadLine(s) ==
    /\ ReadLineEvent(s)
    /\ nilLineCount' = [nilLineCount EXCEPT ![s] = 0]
    /\ activityCh' = SendNonBlocking(activityCh)
    /\ lastSignal' = now
    /\ everSignal' = TRUE

\* case line := <-t.Lines, a nil line
ReadNil(s) ==
    /\ pc[s] = "tail"
    /\ tailClosed[s]
    /\ nilLineCount' = [nilLineCount EXCEPT ![s] = @ + 1]
    /\ nilReads' = [nilReads EXCEPT ![s] = @ + 1]
    /\ pc' = [pc EXCEPT ![s] = IF nilLineCount'[s] >= maxNilLines THEN "abandoned" ELSE "tail"]
    /\ UNCHANGED <<everSignal, fnVars, fileLen, flushAt, fileStore, offsets, seekLine, lineNum, batch, tailClosed,
                   snap, ctxDone, run, activityCh, lastSignal, lastPost, acked, read, detVars>>

\* the timer case posts the batch: if len(batch) > 0
TimerFlushNever(b) == FALSE
TimerFlushAlways(b) == TRUE
TimerFlushNeeded(b) == Len(b) > 0

\* case <-flushTimer.C
TimerFlush(s) ==
    /\ pc[s] = "tail"
    /\ IF TimerFlushNeeded(batch[s])
       THEN \E out \in Outcomes(ctxDone) : Post(s, batch[s], lineNum[s], out, "tail")
       ELSE UNCHANGED <<offsets, pc, batch, lastPost, acked>>
    /\ flushAt' = IF pc'[s] = "marshal" THEN flushAt
                  ELSE [flushAt EXCEPT ![s] = TimerAfter(@, now)]
    /\ UNCHANGED <<nilReads, everSignal, fnVars, fileLen, fileStore, seekLine, lineNum, nilLineCount, tailClosed,
                   snap, ctxDone, run, activityCh, lastSignal, read, detVars>>

\* the final flush is attempted
FinalFlushNever(b) == FALSE
FinalFlushNeeded(b) == Len(b) > 0

\* case <-ctx.Done()
ObserveCancel(s) ==
    /\ pc[s] = "tail"
    /\ ctxDone
    /\ IF FinalFlushNeeded(batch[s])
       THEN \E out \in Outcomes(ctxDone) : Post(s, batch[s], lineNum[s], out, "cancelled")
       ELSE /\ pc' = [pc EXCEPT ![s] = "cancelled"]
            /\ UNCHANGED <<offsets, batch, lastPost, acked>>
    /\ UNCHANGED <<nilReads, everSignal, fnVars, fileLen, flushAt, fileStore, seekLine, lineNum, nilLineCount, tailClosed,
                   snap, ctxDone, run, activityCh, lastSignal, read, detVars>>

\* saveOffsets: json.MarshalIndent(offsets)
Marshal(s) ==
    /\ pc[s] = "marshal"
    /\ snap' = [snap EXCEPT ![s] = offsets]
    /\ pc' = [pc EXCEPT ![s] = "write"]
    /\ UNCHANGED <<nilReads, everSignal, fnVars, fileLen, flushAt, fileStore, offsets, seekLine, lineNum, batch, nilLineCount,
                   tailClosed, ctxDone, run, activityCh, lastSignal, lastPost, acked, read, detVars>>

\* the caller's batch when postBatchWithOffset has returned true, whether
\* saveOffsets returned an error or not
BatchKeptOnSaveError(b, written) == IF written THEN <<>> ELSE b
BatchAfterSave(b, written) == <<>>

\* saveOffsets: ioutil.WriteFile, which may fail; postBatchWithOffset then returns
\* true and the caller empties the batch
WriteFile(s) ==
    /\ pc[s] = "write"
    /\ \E written \in BOOLEAN :
          /\ fileStore' = IF written THEN snap[s] ELSE fileStore
          /\ batch' = [batch EXCEPT ![s] = BatchAfterSave(@, written)]
    /\ snap' = [snap EXCEPT ![s] = NoMap]
    /\ pc' = [pc EXCEPT ![s] = "tail"]
    /\ flushAt' = [flushAt EXCEPT ![s] = TimerAfter(@, now)]
    /\ UNCHANGED <<nilReads, everSignal, fnVars, fileLen, offsets, seekLine, lineNum, nilLineCount, tailClosed,
                   ctxDone, run, activityCh, lastSignal, lastPost, acked, read, detVars>>

TaskStep(s) ==
    \/ TaskStart(s)
    \/ SkipLine(s)
    \/ ReadLine(s)
    \/ TimerFlush(s)
    \/ ObserveCancel(s)
    \/ Marshal(s)
    \/ WriteFile(s)

\* The task of s is not waiting for something that may never come: the select
\* of the main loop has the timer and ctx.Done() beside t.Lines, the loop that
\* skips lines receives from t.Lines alone.
CanStep(s) ==
    \/ pc[s] \in {"init", "tail", "marshal", "write"}
    \/ pc[s] = "skip" /\ (LineReady(s) \/ tailClosed[s])

\* ------------------------------------------------------ Stop and restarts
\* Monitor.Stop: m.cancel()
Cancel ==
    /\ ~ctxDone
    /\ ctxDone' = TRUE
    /\ UNCHANGED <<nilReads, everSignal, fnVars, fileLen, flushAt, fileStore, offsets, pc, seekLine, lineNum, batch,
                   nilLineCount, tailClosed, snap, run, activityCh, lastSignal, lastPost, acked, read, detVars>>

\* The process ends (killed, crashed or stopped) and is started again. While it
\* is down the files in rotated are replaced by new files of one line.
Restart(rotated) ==
    /\ run < MaxRestarts
    /\ run' = run + 1
    /\ fileLen' = [s \in Sources |-> IF s \in rotated THEN 1 ELSE fileLen[s]]
    /\ acked' = [s \in Sources |-> IF s \in rotated THEN {} ELSE acked[s]]
    /\ read' = [s \in Sources |-> IF s \in rotated THEN {} ELSE read[s]]
    /\ offsets' = fileStore
    /\ pc' = [s \in Sources |-> "init"]
    /\ seekLine' = [s \in Sources |-> 0]
    /\ lineNum' = [s \in Sources |-> 0]
    /\ batch' = [s \in Sources |-> <<>>]
    /\ nilLineCount' = [s \in Sources |-> 0]
    /\ tailClosed' = [s \in Sources |-> FALSE]
    /\ snap' = [s \in Sources |-> NoMap]
    /\ ctxDone' = FALSE
    /\ activityCh' = 0
    /\ lastEventTime' = now
    /\ alertSent' = FALSE
    /\ dpc' = "select"
    /\ wake' = 0
    /\ alertReqs' = 0
    /\ alertOks' = 0
    /\ flushAt' = [s \in Sources |-> 0]
    /\ lastSignal' = now
    /\ wasReset' = FALSE
    /\ nilReads' = [s \in Sources |-> 0]
    /\ everSignal' = FALSE
    /\ UNCHANGED now
    /\ UNCHANGED <<fnVars, fileStore, lastPost>>

\* ------------------------------------------------------------ down detector
\* delay as Monitor.Start computes it, in seconds
Delay == IF DownAlertDelay <= 0 THEN DefaultDelay ELSE DownAlertDelay

\* the alert condition tested after each sleep
AlertDue == ~alertSent /\ now - lastEventTime > Delay

\* alertSent after sendTelegramAlert has returned
AlertSentAlways(ok) == TRUE
AlertSentNever(ok) == alertSent
AlertSentAfter(ok) == IF ok THEN TRUE ELSE alertSent

\* alertSent after case <-activityCh: if alertSent { alertSent = false }
AlertSentKept(sent) == sent
AlertSentOnActivity(sent) == FALSE

\* select, case <-activityCh
DetActivity ==
    /\ dpc = "select"
    /\ activityCh = 1
    /\ activityCh' = 0
    /\ lastEventTime' = now
    /\ alertSent' = AlertSentOnActivity(alertSent)
    /\ alertReqs' = 0
    /\ alertOks' = 0
    /\ wasReset' = (wasReset \/ alertSent)
    /\ UNCHANGED <<nilReads, everSignal, fnVars, now, dpc, wake, lastSignal, ctxDone, pipeVars>>

\* select, case <-ctx.Done()
DetDone ==
    /\ dpc = "select"
    /\ ctxDone
    /\ dpc' = "exited"
    /\ UNCHANGED <<nilReads, everSignal, fnVars, now, lastEventTime, wasReset, alertSent, wake, alertReqs, alertOks,
                   activityCh, lastSignal, ctxDone, pipeVars>>

\* select, default: no case is ready and the goroutine goes to sleep
DetSleep ==
    /\ dpc = "select"
    /\ activityCh = 0
    /\ ~ctxDone
    /\ dpc' = "sleep"
    /\ wake' = now + PollSleep
    /\ UNCHANGED <<nilReads, everSignal, fnVars, now, lastEventTime, wasReset, alertSent, alertReqs, alertOks,
                   activityCh, lastSignal, ctxDone, pipeVars>>

\* default, after time.Sleep: the test, and the alert request with its result
DetWake ==
    /\ dpc = "sleep"
    /\ now >= wake
    /\ dpc' = "select"
    /\ IF AlertDue
       THEN \E ok \in BOOLEAN :
               /\ alertSent' = AlertSentAfter(ok)
               /\ alertReqs' = alertReqs + 1
               /\ alertOks' = alertOks + (IF ok THEN 1 ELSE 0)
       ELSE UNCHANGED <<alertSent, alertReqs, alertOks>>
    /\ UNCHANGED <<nilReads, everSignal, fnVars, now, lastEventTime, wasReset, wake, activityCh, lastSignal, ctxDone, pipeVars>>

\* a Source task reads a line and notifies: select { case activityCh <- struct{}{}: default: }
Notify ==
    /\ activityCh' = SendNonBlocking(activityCh)
    /\ lastSignal' = now
    /\ everSignal' = TRUE
    /\ UNCHANGED <<nilReads, fnVars, detVars, ctxDone, pipeVars>>

\* a second passes; a sleep ends on time and a select does not wait
Tick ==
    /\ now < MaxTime
    /\ \/ dpc = "sleep" /\ now < wake
       \/ dpc = "exited"
    /\ now' = now + 1
    /\ UNCHANGED <<nilReads, everSignal, fnVars, lastEventTime, wasReset, alertSent, dpc, wake, alertReqs, alertOks,
                   activityCh, lastSignal, ctxDone, pipeVars>>

\* Monitor.Stop: m.cancel(), seen from the down detector
StopDetector ==
    /\ ~ctxDone
    /\ ctxDone' = TRUE
    /\ UNCHANGED <<nilReads, everSignal, fnVars, detVars, activityCh, lastSignal, pipeVars>>

NextDown ==
    \/ DetActivity
    \/ DetDone
    \/ DetSleep
    \/ DetWake
    \/ Notify
    \/ Tick
    \/ StopDetector

SpecDown == Init /\ [][NextDown]_vars

\* One Source is written by its workload; the file of the other is missing.
Written == {"a"}

\* the steps of a task whose tail has stopped
StallStep(s) ==
    \/ SkipNil(s)
    \/ ReadNil(s)

Next ==
    \/ \E s \in Written : AppendLine(s)
    \/ \E s \in Sources : TaskStep(s)
    \/ Cancel
    \/ \E rotated \in SUBSET {s \in Sources : fileLen[s] > 1} : Restart(rotated)

Spec == Init /\ [][Next]_vars

\* The same, with tails that may stop.
NextStall ==
    \/ Next
    \/ \E s \in Sources : CloseTail(s)
    \/ \E s \in Sources : StallStep(s)

SpecStall == Init /\ [][NextStall]_vars

\* One run with tails that may stop, in which a task that can serve its flush
\* timer eventually does (the timer expires and the select takes a ready case)
\* and a task that has posted goes on to save the offsets.
FlushStep(s) ==
    \/ TimerFlush(s)
    \/ Marshal(s)
    \/ WriteFile(s)

NextLive ==
    \/ \E s \in Written : AppendLine(s)
    \/ \E s \in Sources : TaskStep(s)
    \/ Cancel

SpecLive ==
    /\ Init
    /\ [][NextLive]_vars
    /\ \A s \in Sources : WF_vars(FlushStep(s))

\* Both Sources are written; the process runs once.
NextShared ==
    \/ \E s \in Sources : fileLen[s] < MaxSharedLines /\ AppendLine(s)
    \/ \E s \in Sources : TaskStep(s)
    \/ Cancel

SpecShared == Init /\ [][NextShared]_vars

\* The task of a written Source beside the clock. A timer that has fired is
\* served before the next second passes when its task waits in the select of
\* the main loop; time passes freely while the task is busy elsewhere.
TimerDue(s) == now >= flushAt[s]

TimerFires(s) == TimerDue(s) /\ TimerFlush(s)

ClockTick ==
    /\ now < MaxClock
    /\ \A s \in Sources : pc[s] = "tail" => ~TimerDue(s)
    /\ now' = now + 1
    /\ UNCHANGED <<nilReads, everSignal, fnVars, lastEventTime, alertSent, dpc, wake, alertReqs, alertOks, wasReset,
                   activityCh, lastSignal, ctxDone, pipeVars>>

TimedTaskStep(s) ==
    \/ TaskStart(s)
    \/ SkipLine(s)
    \/ ReadLine(s)
    \/ TimerFires(s)
    \/ ObserveCancel(s)
    \/ Marshal(s)
    \/ WriteFile(s)

NextTimer ==
    \/ \E s \in Written : AppendLine(s)
    \/ \E s \in Sources : TimedTaskStep(s)
    \/ ClockTick
    \/ Cancel

SpecTimer == Init /\ [][NextTimer]_vars

\* ------------------------------------------- tasks without the down detector
\* tailLogFileWithOffset, the task Monitor.Start spawns when alert_on_down is
\* off: it does not look at the file before tailing it, it counts no nil
\* lines and it sends no activity signal. A file that is missing is waited for.
PlainStart(s) ==
    /\ pc[s] = "init"
    /\ seekLine' = [seekLine EXCEPT ![s] = StartLine(offsets[s], fileLen[s])]
    /\ flushAt' = [flushAt EXCEPT ![s] = TimerAfter(@, now)]
    /\ pc' = [pc EXCEPT ![s] = IF SkipMore(0, seekLine'[s]) THEN "skip" ELSE "tail"]
    /\ UNCHANGED <<nilReads, everSignal, fnVars, fileLen, fileStore, offsets, lineNum, batch,
                   nilLineCount, tailClosed, snap, ctxDone, run, activityCh, lastSignal,
                   lastPost, acked, read, detVars>>

PlainReadLine(s) ==
    /\ ReadLineEvent(s)
    /\ UNCHANGED <<nilLineCount, activityCh, lastSignal, everSignal>>

\* case line := <-t.Lines, a nil line: continue
PlainReadNil(s) ==
    /\ pc[s] = "tail"
    /\ tailClosed[s]
    /\ nilReads[s] < MaxNilReads
    /\ nilReads' = [nilReads EXCEPT ![s] = @ + 1]
    /\ UNCHANGED <<everSignal, fnVars, fileLen, fileStore, offsets, pc, seekLine, lineNum,
                   batch, nilLineCount, tailClosed, snap, ctxDone, run, activityCh,
                   lastSignal, lastPost, acked, read, flushAt, detVars>>

PlainTaskStep(s) ==
    \/ PlainStart(s)
    \/ SkipLine(s)
    \/ SkipNil(s)
    \/ PlainReadLine(s)
    \/ PlainReadNil(s)
    \/ TimerFlush(s)
    \/ ObserveCancel(s)
    \/ Marshal(s)
    \/ WriteFile(s)

NextPlain ==
    \/ \E s \in Written : AppendLine(s)
    \/ \E s \in Sources : CloseTail(s)
    \/ \E s \in Sources : PlainTaskStep(s)
    \/ Cancel

SpecPlain == Init /\ [][NextPlain]_vars

\* ------------------------------------------------ the parser and the scrubber
\* The lines given to parseSwarmLogLine: four-field lines made of a level and
\* a message, and lines with fewer fields.
Levels ==
    {<<"INFO">>, <<"info">>, <<Space, "ERROR">>, <<"Debug", Space>>,
     <<"WARNING">>, <<"RAW">>}

PeersNoSpace == <<JoinMarker, Space, "[", "'", "pa", "'", ",", "'", "pb", "'", "]">>
PeersSpaced == <<JoinMarker, Space, "[", "'", "pa", "'", CommaSpace, "'", "pb", "'", "]">>

Msgs ==
    {<<"txt">>, <<"txt", Space, "ip">>, <<"wallet", "ip">>, <<"ip", Space, "wallet">>,
     <<"email", Space, "hex">>, <<"txt", Delim, "txt">>, <<Space, "env", Space>>,
     PeersNoSpace, PeersSpaced,
     <<JoinMarker, Space, "]", "pa", "[">>, <<JoinMarker>>,
     <<JoinMarker, Space, "[", "'", "ip", "'", "]">>}

FourField(lvl, msg) == <<"ts", Delim>> \o lvl \o <<Delim, "lg", Delim>> \o msg

ShortLines ==
    {<<>>, <<"txt">>, <<Space, "txt">>, <<"wallet", "ip">>, <<"ts", Delim, "INFO">>,
     <<"ts", Delim, "INFO", Delim, "lg">>, <<"ts", Delim, "RAW", Delim, JoinMarker>>}

Inputs == {FourField(lvl, msg) : lvl \in Levels, msg \in Msgs} \cup ShortLines

InitParse ==
    /\ InitProcess
    /\ inLine \in Inputs
    /\ result = NoResult
    /\ tx = NoCall

\* event := parseSwarmLogLine(line.Text, m.cfg)
Parse ==
    /\ Len(result) = 0
    /\ result' = <<parseSwarmLogLine(inLine, 0)>>
    /\ UNCHANGED <<inLine, tx, nilReads, everSignal, detVars, activityCh, lastSignal,
                   ctxDone, pipeVars>>

\* scrubPII(&batch[i]), by the first attempt that holds the Event and by the
\* next one
Scrub ==
    /\ Len(result) \in {1, 2}
    /\ result' = Append(result, scrubPII(result[Len(result)]))
    /\ UNCHANGED <<inLine, tx, nilReads, everSignal, detVars, activityCh, lastSignal,
                   ctxDone, pipeVars>>

NextParse ==
    \/ Parse
    \/ Scrub

SpecParse == InitParse /\ [][NextParse]_vars

\* ------------------------------------------------------------ the Transmitter
\* json.Marshal(payload): the bytes given to bytes.NewBuffer
jsonData == <<"{", "data", "}">>

\* the values api.retry_count is given; the configuration is not validated
RetryCounts == -1 .. RetryCount

\* var lastErr error
NilErr == [err |-> FALSE, status |-> 0]

\* time.Duration(i+1) * time.Second, in seconds
BackoffFlat(i) == 1
Backoff(i) == i + 1

\* resp.StatusCode >= 200 && resp.StatusCode < 300
OkStatus(c) == c >= 200 /\ c < 300

\* the condition of for i := 0; i <= t.cfg.API.RetryCount; i++
LoopMore(i, n) == i <= n

\* What one client.Do(req) answers, sends of req.Body and leaves of it. The
\* body is the buffer made once in SendJSON, read from where the previous call
\* stopped. A call that gets a response has sent all of it; a call that fails
\* has sent a part, none when the connection could not be made. When less than
\* ContentLength is left, the call fails before anything is sent, unless the
\* connection is a reused one: the transport then takes a new reader from
\* req.GetBody and sends the whole document.
Transfer(body) ==
    IF Len(body) = Len(jsonData)
    THEN {[out |-> o, sent |-> body, left |-> <<>>] :
             o \in {x \in Outcomes(ctxDone) : ~x.err}}
         \cup {[out |-> [err |-> TRUE, status |-> 0], sent |-> SubSeq(body, 1, k),
                left |-> SubSeq(body, k + 1, Len(body))] : k \in 0..Len(body)}
    ELSE {[out |-> [err |-> TRUE, status |-> 0], sent |-> <<>>, left |-> <<>>]}
         \cup {[out |-> o, sent |-> jsonData, left |-> <<>>] : o \in Outcomes(ctxDone)}

\* the loop condition is tested: the next client.Do, or return lastErr
LoopTest(t) ==
    IF LoopMore(t.i, t.RetryCount)
    THEN [t EXCEPT !.pc = "do"]
    ELSE [t EXCEPT !.pc = "returned", !.ret = t.lastErr]

\* SendJSON: the payload is serialised, the request is built and sendWithRetry
\* is entered
SendJSON ==
    /\ tx.pc = "idle"
    /\ tx' = LoopTest([tx EXCEPT !.body = jsonData, !.i = 0, !.lastErr = NilErr])
    /\ UNCHANGED <<inLine, result, nilReads, everSignal, detVars, activityCh, lastSignal,
                   ctxDone, pipeVars>>

\* one turn of the loop of sendWithRetry: client.Do(req), the test of its
\* answer, the sleep and the loop condition
Do ==
    /\ tx.pc = "do"
    /\ \E tr \in Transfer(tx.body) :
          LET tried == [tx EXCEPT !.body = tr.left,
                                  !.tries = Append(@, [out |-> tr.out, sent |-> tr.sent])]
              failed == [tried EXCEPT !.lastErr = tr.out]
          IN tx' = IF ~tr.out.err /\ OkStatus(tr.out.status)
                     THEN [tried EXCEPT !.pc = "returned", !.ret = NilErr]
                   ELSE IF tx.i < tx.RetryCount
                     THEN LoopTest([failed EXCEPT !.slept = Append(@, Backoff(tx.i)),
                                                  !.i = @ + 1])
                   ELSE IF tr.out.err
                     THEN [failed EXCEPT !.pc = "returned", !.ret = tr.out]
                   ELSE LoopTest([failed EXCEPT !.i = @ + 1])
    /\ UNCHANGED <<inLine, result, nilReads, everSignal, detVars, activityCh, lastSignal,
                   ctxDone, pipeVars>>

InitRetry ==
    /\ InitProcess
    /\ inLine = NoLine
    /\ result = NoResult
    /\ tx \in {[NoCall EXCEPT !.RetryCount = n] : n \in RetryCounts}

NextRetry ==
    \/ SendJSON
    \/ Do

SpecRetry == InitRetry /\ [][NextRetry]_vars

\* ================================================================= properties
\* the step is a delivery attempt of the task of s
Attempted(s) == lastPost'.tog # lastPost.tog /\ lastPost'.src = s

\* the line indexes a + 1 .. b in order
After(a, b) == [i \in 1..(b - a) |-> a + i]

\* the position the batch of s starts after: its checkpoint, or the position
\* the run started from when it has none yet
PrevAck(s) == IF offsets[s] # NoOff THEN offsets[s] ELSE seekLine[s]

\* every line after the start position up to l has been acknowledged
Covered(s, l) == l # NoOff /\ \A k \in (seekLine[s] + 1)..l : k \in acked[s]

\* C1 (as amended): within a run the in-memory checkpoint of a Source is set, to
\* the line index L its task has read, only by a delivery attempt of that task
\* that was acknowledged and whose batch held the Events of all lines after the
\* previous checkpoint (or the start position) up to L. The persisted document
\* changes only when some task finishes rewriting it after an acknowledged
\* delivery of its own, to the map that task serialised; the entry it then
\* holds for a Source is absent or a position up to which that Source's lines
\* were acknowledged. No failed attempt writes either.
C1_CheckpointAfterAck ==
    [][run' = run => \A s \in Sources :
        /\ offsets'[s] # offsets[s] =>
             /\ Attempted(s) /\ lastPost'.ok
             /\ offsets'[s] = lineNum'[s]
             /\ LineSeq(lastPost'.events) = After(PrevAck(s), offsets'[s])
        /\ fileStore'[s] # fileStore[s] =>
             /\ \E t \in Sources : pc[t] = "write" /\ pc'[t] = "tail" /\ fileStore' = snap[t]
             /\ fileStore'[s] = NoOff \/ Covered(s, fileStore'[s])
        /\ (Attempted(s) /\ ~lastPost'.ok) =>
             offsets' = offsets /\ fileStore' = fileStore]_vars

\* C1 witness: a checkpoint was set and persisted after an acknowledged batch
C1_Witness ==
    /\ fileStore["a"] = 2 /\ offsets["a"] = 2 /\ acked["a"] = {1, 2}
    /\ lastPost.src = "a" /\ lastPost.ok /\ pc["a"] = "tail"

\* the tasks other than s are outside postBatchWithOffset's map write and save
AloneInSave(s) == \A t \in Sources \ {s} : pc[t] \notin {"marshal", "write"}

\* C1 as stated: also the persisted entry of a Source is set only in the step
\* of its own task that follows its own acknowledged delivery, to the line
\* index that delivery covered. (Stated for the steps of a task that saves
\* while no other task is saving.)
C1_Original ==
    [][(run' = run /\ \E t \in Sources : pc[t] = "write" /\ AloneInSave(t)) =>
       \A s \in Sources :
        /\ offsets'[s] # offsets[s] =>
             /\ Attempted(s) /\ lastPost'.ok
             /\ offsets'[s] = lineNum'[s]
             /\ LineSeq(lastPost'.events) = After(PrevAck(s), offsets'[s])
        /\ fileStore'[s] # fileStore[s] =>
             /\ pc[s] = "write" /\ pc'[s] = "tail"
             /\ fileStore'[s] = lineNum[s] /\ Covered(s, fileStore'[s])]_vars

\* the task of s is alive in this run and l is in the batch it will send again
Held(s, l) == pc[s] \in {"tail", "marshal", "write"} /\ l \in Lines(batch[s])

\* line l of s is still ahead of the cursor of this run
Ahead(s, l) ==
    \/ pc[s] = "init" /\ l > StartLine(offsets[s], fileLen[s])
    \/ pc[s] \in {"skip", "tail", "marshal", "write"} /\ l > lineNum[s] /\ l > seekLine[s]

\* a run started now would read line l of s
ReadAgain(s, l) == pc[s] \in Exited /\ l > StartLine(fileStore[s], fileLen[s])

\* C2: no omission. Every line a task has parsed in some run and that is in no
\* acknowledged batch either waits in the batch of the running task, or is still
\* to be read by it, or, the task having exited, is read again by the next run.
C2_NoOmission ==
    \A s \in Sources : \A l \in read[s] \ acked[s] :
        Held(s, l) \/ Ahead(s, l) \/ ReadAgain(s, l)

\* C3: a failed delivery attempt leaves the batch holding the Events it was given
\* (the same lines in the same order, each as redacted for the attempt), and
\* leaves the checkpoint in memory and on disk unchanged; a line read is
\* appended behind the Events the batch holds, whatever its length.
C3_FailedFlushRetains ==
    [][\A s \in Sources :
        /\ (Attempted(s) /\ ~lastPost'.ok) =>
             /\ batch'[s] = lastPost'.events
             /\ Len(batch'[s]) >= Len(batch[s])
             /\ \A i \in DOMAIN batch[s] : batch'[s][i] = scrubPII(batch[s][i])
             /\ \A i \in DOMAIN batch'[s] \ DOMAIN batch[s] :
                    batch'[s][i].ln = lineNum'[s] /\ lineNum'[s] = lineNum[s] + 1
             /\ offsets' = offsets /\ fileStore' = fileStore
        /\ (run' = run /\ lineNum'[s] # lineNum[s] /\ pc[s] = "tail") =>
             LineSeq(batch'[s]) = Append(LineSeq(batch[s]), lineNum'[s])]_vars

\* C3 witness: after failed attempts the batch is longer than the size threshold
C3_Witness ==
    /\ lastPost.src = "a" /\ ~lastPost.ok /\ lastPost.sent
    /\ pc["a"] = "tail" /\ Len(batch["a"]) > BatchSize
    /\ batch["a"] = lastPost.events /\ offsets["a"] = NoOff

\* C4: at most one task is between writing its key into the shared map and the
\* end of its rewrite of the checkpoint document.
C4_MutualExclusion ==
    Cardinality({s \in Sources : pc[s] \in {"marshal", "write"}}) <= 1

\* a string that one of the patterns matches
HasSensitive(str) == \E i \in DOMAIN str : str[i] \in RegexSet

RECURSIVE Leaks(_)
Leaks(val) ==
    CASE val.t = "string" -> HasSensitive(val.v)
      [] val.t = "[]string" -> \E i \in DOMAIN val.v : HasSensitive(val.v[i])
      [] val.t = "map" -> \E k \in DOMAIN val.v : Leaks(val.v[k])
      [] val.t = "[]interface{}" -> \E i \in DOMAIN val.v : Leaks(val.v[i])
      [] OTHER -> FALSE

\* C5: no string at any depth of the details of an Event of a transmitted batch,
\* the elements of a peers list included, holds a text a pattern matches.
C5_NoSensitiveSent ==
    lastPost.sent => \A i \in DOMAIN lastPost.events : ~Leaks(Map(lastPost.events[i].details))

\* C8: a task that finds a checkpoint R for its Source skips R lines; a line is
\* parsed exactly when R lines have been read before it, so that no line at or
\* before R gives an Event and line R + 1 is the first that does.
C8_ResumeSkipsExactly ==
    [][run' = run => \A s \in Sources :
        /\ (pc[s] = "init" /\ pc'[s] \in {"skip", "tail"} /\ offsets[s] # NoOff) =>
             seekLine'[s] = offsets[s]
        /\ lineNum'[s] # lineNum[s] =>
             /\ lineNum'[s] = lineNum[s] + 1
             /\ IF lineNum[s] < seekLine[s]
                THEN batch'[s] = batch[s] /\ batch[s] = <<>> /\ read' = read
                     /\ lastPost' = lastPost
                ELSE /\ batch'[s] # <<>>
                     /\ batch'[s][Len(batch'[s])].ln = lineNum'[s]
                     /\ lineNum'[s] \in read'[s]
        /\ \A i \in DOMAIN batch'[s] : batch'[s][i].ln > seekLine'[s]]_vars

\* C8 witness: restarted with checkpoint 2, the task has parsed line 3 and no other
C8_Witness ==
    /\ run = 1 /\ offsets["a"] = 2 /\ seekLine["a"] = 2 /\ lineNum["a"] = 3
    /\ LineSeq(batch["a"]) = <<3>>

\* C9: once the context is cancelled every task that has not exited can take a
\* step, wherever it waits.
C9_CancelledTasksCanExit ==
    ctxDone => \A s \in Sources : pc[s] \in Exited \/ CanStep(s)

\* C10: the step in which a task observes the cancellation makes one delivery
\* attempt with the whole batch when the batch is not empty and none when it is
\* empty, and the task has exited after it: it attempts nothing more.
C10_FinalFlushOnce ==
    [][run' = run => \A s \in Sources :
        /\ (pc[s] = "tail" /\ pc'[s] = "cancelled") =>
             IF batch[s] # <<>>
             THEN Attempted(s) /\ LineSeq(lastPost'.events) = LineSeq(batch[s])
             ELSE lastPost' = lastPost
        /\ pc[s] = "cancelled" => pc'[s] = "cancelled" /\ ~Attempted(s)
        /\ (ctxDone /\ pc[s] = "tail" /\ pc'[s] # "tail") => pc'[s] = "cancelled"]_vars

\* C10 witness: a task has exited on cancellation after attempting its batch
C10_Witness ==
    /\ ctxDone /\ pc["a"] = "cancelled" /\ batch["a"] # <<>>
    /\ lastPost.src = "a" /\ lastPost.events = batch["a"] /\ ~lastPost.sent

C11_FinalFlushOnEveryExit ==
    [][\A s \in Sources :
          (/\ run' = run
           /\ pc[s] = "tail"
           /\ pc'[s] \in {"cancelled", "abandoned"}
           /\ Len(batch[s]) > 0)
          => /\ lastPost'.src = s
             /\ lastPost'.tog # lastPost.tog]_vars

\* C12: a delivery of a log batch is reported as failed, and its batch retained,
\* only when the configured maximum number of attempts has been made.
C12_RetriedUntilExhausted ==
    (lastPost.src # "none" /\ ~lastPost.ok) => lastPost.attempts = MaxAttempts

\* C13: a delivery attempt of a log batch counts as a success if and only if
\* the response status is in [200,300).
C13_SuccessIff2xx ==
    lastPost.src # "none"
    => (lastPost.ok <=> (lastPost.status >= 200 /\ lastPost.status < 300))

\* C14: the flush deadline is one flush interval after the Source's last flush
\* attempt (or the task's start); a line that is read and does not cause a
\* flush attempt leaves the deadline where it was.
C14_LinesDoNotPostpone ==
    [][\A s \in Sources :
          (/\ pc[s] = "tail"
           /\ lineNum'[s] = lineNum[s] + 1
           /\ lastPost' = lastPost)
          => flushAt'[s] = flushAt[s]]_vars

\* C15: the step that appends the line bringing the batch to batch_size makes a
\* delivery attempt with the batch and that line's Event, and a step that
\* appends a line leaving the batch below batch_size makes no attempt.
C15_SizeTrigger ==
    [][\A s \in Sources :
          (/\ run' = run
           /\ pc[s] = "tail"
           /\ lineNum'[s] = lineNum[s] + 1)
          => /\ Len(batch[s]) + 1 = BatchSize
                => /\ lastPost'.src = s
                   /\ lastPost'.tog # lastPost.tog
                   /\ LineSeq(lastPost'.events)
                        = Append(LineSeq(batch[s]), lineNum'[s])
             /\ Len(batch[s]) + 1 < BatchSize => lastPost' = lastPost]_vars

\* a size-triggered attempt with batch_size lines, acknowledged
C15_Witness ==
    /\ run = 0
    /\ pc["a"] = "marshal"
    /\ seekLine["a"] = 0
    /\ lineNum["a"] = BatchSize
    /\ lastPost.src = "a"
    /\ lastPost.ok
    /\ lastPost.tog = 1
    /\ Len(lastPost.events) = BatchSize

\* C16: when a delivery attempt has succeeded and postBatchWithOffset has
\* returned, the Source's batch is empty and its timer fires one full flush
\* interval later.
C16_SuccessClearsAndRestarts ==
    [][\A s \in Sources :
          (pc[s] = "write" /\ pc'[s] = "tail")
          => /\ batch'[s] = <<>>
             /\ flushAt'[s] = now + FlushInterval]_vars

\* after some seconds a delivery has succeeded and the task is back in its loop
C16_Witness ==
    /\ now > 0
    /\ pc["a"] = "tail"
    /\ lastPost.src = "a"
    /\ lastPost.ok
    /\ batch["a"] = <<>>
    /\ flushAt["a"] = now + FlushInterval

\* C17: an alert request is issued only when more than the delay has passed
\* since the most recent activity signal a Source sent, or since the process
\* started when there was none.
C17_AlertOnlyAfterDelay ==
    [][alertReqs' > alertReqs => now - lastSignal > Delay]_vars

\* C18: processing an activity signal sets the silence clock to the present and
\* leaves the detector not alerted, whether it was alerted or not; and a
\* detector that is not alerted issues an alert request at the first poll that
\* finds the silence longer than the delay.
C18_ActivityResets ==
    [][/\ (activityCh = 1 /\ activityCh' = 0)
          => (lastEventTime' = now /\ ~alertSent')
       /\ (dpc = "sleep" /\ dpc' = "select" /\ ~alertSent
             /\ now - lastEventTime > Delay)
          => alertReqs' = alertReqs + 1]_vars

\* a signal has ended an alerted episode and a new alert has gone out since
C18_Witness ==
    /\ wasReset
    /\ alertSent
    /\ alertOks = 1

\* C19: every step in which a task reads a line, a skipped resume line
\* included, leaves an activity signal in the channel.
C19_SignalPerLine ==
    [][\A s \in Sources :
          lineNum'[s] = lineNum[s] + 1 => activityCh' = 1]_vars

\* C20: a task can always send; at most one signal is ever pending; a signal
\* sent leaves the slot full, whether it was empty or not; and when the
\* detector empties the slot its silence clock is not earlier than any signal
\* sent before.
C20_SingleSlot ==
    /\ [](ENABLED Notify)
    /\ [][/\ activityCh' \in {0, 1}
          /\ lastSignal' # lastSignal => activityCh' = 1
          /\ (activityCh = 1 /\ activityCh' = 0) => lastEventTime' >= lastSignal]_vars

\* a signal sent at the end of a sleep waits in the slot
C20_Witness ==
    /\ now > 0
    /\ dpc = "sleep"
    /\ now = wake
    /\ activityCh = 1
    /\ lastSignal = now

\* C21: a task that has received maxNilLines nil lines in a row, in the loop
\* that skips resume lines or in its main loop, has abandoned its file.
C21_AbandonsAfterNilReads ==
    \A s \in Sources : nilReads[s] >= maxNilLines => pc[s] = "abandoned"

\* C22: a task that starts on a file that is missing or empty returns at once,
\* with no delivery attempt and no change to the checkpoints in memory or on
\* disk.
C22_MissingFileReturns ==
    [][\A s \in Sources :
          (run' = run /\ pc[s] = "init" /\ pc'[s] # "init" /\ fileLen[s] = 0)
          => /\ pc'[s] = "nofile"
             /\ lastPost' = lastPost
             /\ offsets' = offsets
             /\ fileStore' = fileStore]_vars

C24_PersistFailureOnlyLogged ==
    [][\A s \in Sources :
          /\ (pc[s] = "write" /\ pc'[s] # "write" /\ run' = run)
             => /\ pc'[s] = "tail"
                /\ batch'[s] = <<>>
                /\ offsets' = offsets
                /\ offsets[s] = lineNum[s]
                /\ fileStore' \in {fileStore, snap[s]}
          /\ (pc[s] = "marshal" /\ pc'[s] = "write") => snap'[s] = offsets]_vars

\* the save failed: memory holds a checkpoint the file does not, the batch is
\* empty and the task reads on
C24_Witness ==
    /\ run = 0
    /\ pc["a"] = "tail"
    /\ batch["a"] = <<>>
    /\ lastPost.src = "a"
    /\ lastPost.ok
    /\ offsets["a"] = lineNum["a"]
    /\ fileStore["a"] # offsets["a"]

\* C25: an attempt leaves the Events that an earlier attempt has redacted as
\* they are, and every Event of a request that went out has been redacted.
C25_RedactedOnce ==
    [][\A s \in Sources :
          (lastPost'.tog # lastPost.tog /\ lastPost'.src = s)
          => /\ \A i \in DOMAIN batch[s] :
                   batch[s][i].redacted
                   => lastPost'.events[i].details = batch[s][i].details
             /\ \A i \in DOMAIN lastPost'.events : lastPost'.events[i].redacted]_vars

\* C26: scrubPII applied to the result of scrubPII leaves the details as they
\* are.
C26_Idempotent ==
    Len(result) = 3 => result[3].details = result[2].details

\* the fields of a line: one more than its delimiters
Fields(line) == 1 + Cardinality({i \in DOMAIN line : line[i] = Delim})

C28_PeersExtracted ==
    Len(result) >= 1
    => \A lvl \in Levels :
          /\ inLine \in {FourField(lvl, PeersNoSpace), FourField(lvl, PeersSpaced)}
             => /\ result[1].details.action = Str(<<"join">>)
                /\ result[1].details.peers.v = << <<"pa">>, <<"pb">> >>
          /\ inLine \in {FourField(lvl, <<JoinMarker>>),
                         FourField(lvl, <<JoinMarker, Space, "]", "pa", "[">>)}
             => /\ result[1].details.action = Str(<<"join">>)
                /\ result[1].details.peers.v = <<>>

\* C29: without the peer-join marker the type of a four-field line is its
\* level in lower case when that reads error, info or debug, and otherwise the
\* level as written, white space around it removed.
C29_EventTypeFromLevel ==
    Len(result) >= 1
    => \A lvl \in Levels, msg \in Msgs :
          (inLine = FourField(lvl, msg) /\ ~Contains(msg, JoinMarker))
          => result[1].event_type =
               IF ToLower(TrimSpace(lvl)) \in {<<"error">>, <<"info">>, <<"debug">>}
               THEN ToLower(TrimSpace(lvl))
               ELSE TrimSpace(lvl)

\* C30: an alert goes out only in a run in which some task has sent an
\* activity signal.
C30_NoAlertWithoutActivity ==
    [][alertOks' > alertOks => everSignal]_vars


\* attempt k of the call was answered with a status in [200,300)
Answered2xx(k) == ~tx.tries[k].out.err /\ OkStatus(tx.tries[k].out.status)

\* C31: with a retry count n >= 0 sendWithRetry makes at most n+1 attempts; an
\* attempt answered 2xx is the last one and nil is returned; the wait after
\* failed attempt i is i+1 seconds and there is one wait for each failed attempt
\* that another attempt follows, none after the last; and when all n+1
\* attempts have failed the error of the last one is returned. It returns for
\* no other reason.
C31_RetryLoop ==
    tx.RetryCount >= 0 =>
        LET n == tx.RetryCount
            made == Len(tx.tries)
        IN /\ made <= n + 1
           /\ \A k \in DOMAIN tx.tries :
                 Answered2xx(k) => k = made /\ tx.pc = "returned" /\ tx.ret = NilErr
           /\ \A k \in DOMAIN tx.slept : tx.slept[k] = (k - 1) + 1
           /\ Len(tx.slept) = (IF tx.pc = "do" THEN made ELSE Max(0, made - 1))
           /\ tx.pc = "returned" =>
                 /\ made >= 1
                 /\ Answered2xx(made) \/ (made = n + 1 /\ tx.ret = tx.tries[made].out)

\* C31 witness: with retry count 2 three attempts have failed, after waits of
\* 1 and 2 seconds, and the error of the third is returned
C31_Witness ==
    /\ tx.pc = "returned"
    /\ tx.RetryCount = 2
    /\ Len(tx.tries) = 3
    /\ tx.slept = <<1, 2>>
    /\ tx.tries[3].out.status = 500
    /\ tx.ret = tx.tries[3].out

\* C36: whatever the retry count, zero and negative values included,
\* sendWithRetry returns nil only if a request was sent and answered with a
\* status in [200,300)
C36_NilOnlyAfter2xx ==
    (tx.pc = "returned" /\ tx.ret = NilErr) => \E k \in DOMAIN tx.tries : Answered2xx(k)

\* C37: every attempt after the first transmits the complete serialised
\* payload, the body built once in SendJSON
C37_RetrySendsWholeBody ==
    \A k \in DOMAIN tx.tries : k > 1 => tx.tries[k].sent = jsonData


\* the position up to which the lines of s are acknowledged in this run: the
\* checkpoint in memory, which is the start position when it was loaded from
\* the file, and the start position when there is none
LastAck(s) == IF offsets[s] # NoOff THEN offsets[s] ELSE seekLine[s]

\* C33: while a task is in its main loop its batch holds, in file order,
\* exactly one Event for each line read since the last acknowledged position,
\* so that read cursor = last acknowledged position + length of the batch; the
\* last acknowledged position is never before the start position.
C33_CursorIsAckPlusBatch ==
    \A s \in Sources :
        pc[s] = "tail" =>
            /\ seekLine[s] <= LastAck(s)
            /\ lineNum[s] = LastAck(s) + Len(batch[s])
            /\ LineSeq(batch[s]) = After(LastAck(s), lineNum[s])

\* C33 witness: after a flush that succeeded the task has read one more line,
\* which is alone in the batch
C33_Witness ==
    \E s \in Sources :
        /\ pc[s] = "tail"
        /\ offsets[s] # NoOff
        /\ offsets[s] > seekLine[s]
        /\ Len(batch[s]) = 1
        /\ lineNum[s] = offsets[s] + 1

\* C34: with several tasks persisting, the value the checkpoint file holds for
\* a Source never decreases within a run, and a rewrite that completes when no
\* other persist operation is in flight leaves the file equal to the map in
\* memory.
C34_FileNeverBehind ==
    [][/\ \A s \in Sources : fileStore'[s] >= fileStore[s]
       /\ (fileStore' # fileStore /\ \A s \in Sources : pc'[s] \notin {"marshal", "write"})
             => fileStore' = offsets']_vars

\* C35: once the context is cancelled no delivery attempt of the run succeeds,
\* the final flush included: the task that observes cancellation with a
\* non-empty batch attempts it, fails and exits with the batch unacknowledged;
\* the checkpoints in memory do not change any more and the file is only
\* written by a save that was in flight, with what a flush that succeeded
\* before cancellation had left.
C35_FinalFlushFails ==
    [][(ctxDone /\ run' = run) =>
          /\ \A s \in Sources : Attempted(s) => ~lastPost'.ok
          /\ offsets' = offsets
          /\ acked' = acked
          /\ \A s \in Sources :
                (pc[s] = "tail" /\ pc'[s] = "cancelled" /\ Len(batch[s]) > 0) =>
                    /\ Attempted(s)
                    /\ LineSeq(batch'[s]) = LineSeq(batch[s])
          /\ fileStore' # fileStore =>
                \E s \in Sources : pc[s] = "write" /\ fileStore' = snap[s]]_vars

\* C35 witness: a task has exited on cancellation with a line that was read
\* after its last acknowledged flush, and the final attempt has failed
C35_Witness ==
    \E s \in Sources :
        /\ pc[s] = "cancelled"
        /\ lastPost.src = s
        /\ ~lastPost.ok
        /\ offsets[s] # NoOff
        /\ offsets[s] < lineNum[s]
        /\ Len(batch[s]) = lineNum[s] - offsets[s]

\* C38: no delivery attempt is made with an empty batch, whatever the trigger;
\* a timer that expires over an empty batch is restarted with the full
\* interval and nothing else happens.
C38_NoEmptyDelivery ==
    [][\A s \in Sources :
          /\ Attempted(s) => Len(lastPost'.events) > 0 /\ Len(batch[s]) + 1 >= Len(lastPost'.events)
          /\ (/\ pc[s] = "tail" /\ Len(batch[s]) = 0
              /\ lineNum'[s] = lineNum[s] /\ flushAt'[s] # flushAt[s]) =>
                /\ ~Attempted(s)
                /\ flushAt'[s] = now + FlushInterval
                /\ pc'[s] = "tail" /\ batch'[s] = batch[s]
                /\ offsets' = offsets /\ fileStore' = fileStore]_vars

\* C38 witness: a task has exited on cancellation with an empty batch and no
\* delivery attempt was ever made
C38_Witness ==
    \E s \in Sources :
        /\ pc[s] = "cancelled"
        /\ Len(batch[s]) = 0
        /\ lineNum[s] = seekLine[s]
        /\ lastPost.src = "none"
        /\ now >= FlushInterval


\* C32: in a run in which from some point on every delivery attempt is
\* accepted, a batch that is not empty is eventually delivered and emptied,
\* with the checkpoint equal to the read cursor, unless the run is cancelled or
\* the task abandons its file; no further line is needed for that.
C32_BatchEventuallyDelivered ==
    (<>[][\A s \in Sources : Attempted(s) => lastPost'.ok]_vars) =>
        \A s \in Sources :
            (pc[s] = "tail" /\ Len(batch[s]) > 0) ~>
                \/ ctxDone
                \/ pc[s] = "abandoned"
                \/ (pc[s] = "tail" /\ Len(batch[s]) = 0 /\ offsets[s] = lineNum[s])

\* C32 witness: a batch shorter than batch_size has been delivered when every
\* line of the file was read, and the checkpoint has reached the read cursor
C32_Witness ==
    \E s \in Sources :
        /\ pc[s] = "tail"
        /\ ~ctxDone
        /\ lineNum[s] = fileLen[s]
        /\ lastPost.src = s
        /\ lastPost.ok
        /\ Len(lastPost.events) < BatchSize
        /\ Len(batch[s]) = 0
        /\ offsets[s] = lineNum[s]

====
